---- MODULE Spec2Model ----
(***************************************************************************)
(* Model of src/extract_outline.py: the heading classifier, the title      *)
(* selector, the outline builder and the batch loop of the multilingual    *)
(* PDF outline extractor.                                                  *)
(*                                                                         *)
(* A text is a sequence of one-character strings.  Regular expressions are *)
(* records interpreted by Ends, which returns the set of positions at      *)
(* which a match starting at a given position can end; re.match(p, s)      *)
(* succeeds iff that set is non-empty for position 1 (a backtracking       *)
(* matcher finds a match whenever one exists).                             *)
(*                                                                         *)
(* Font sizes are integers; the average font size is the exact fraction    *)
(* [num, den], so that font_size / avg_font_size > k/10 is decided as      *)
(* font_size * den * 10 > k * num.                                         *)
(***************************************************************************)
EXTENDS Integers, Sequences, FiniteSets, TLC

VARIABLES
    mode,           \* which entry point this behaviour exercises
    pc,             \* position inside the entry point
    text,           \* classify_heading_level / matches_heading_pattern: text
    pattern_type,   \* matches_heading_pattern: returned family
    fmt,            \* classify_heading_level: font_size, avg_font_size, is_bold
    level,          \* classify_heading_level: returned level ("None" for None)
    text_blocks,    \* extract_title / extract_outline: the fragment list
    title,          \* extract_title: returned title
    idx,            \* extract_outline: number of blocks scanned; process_pdfs: files done
    outline,        \* extract_outline: the outline list
    seen_headings,  \* extract_outline: the set of accepted texts
    faults,         \* process_pdfs: per file, which steps raise
    outputs,        \* process_pdfs: per file, what the output file holds
    escaped         \* process_pdfs: an exception left process_pdfs

vars == <<mode, pc, text, pattern_type, fmt, level, text_blocks, title, idx,
          outline, seen_headings, faults, outputs, escaped>>

(***************************************************************************)
(* Characters.                                                             *)
(***************************************************************************)
Digit == {"0", "1", "2", "3", "4", "5", "6", "7", "8", "9"}

UpperAZ == {"A", "B", "C", "D", "E", "F", "G", "H", "I", "J", "K", "L", "M",
            "N", "O", "P", "Q", "R", "S", "T", "U", "V", "W", "X", "Y", "Z"}

LowerAZ == {"a", "b", "c", "d", "e", "f", "g", "h", "i", "j", "k", "l", "m",
            "n", "o", "p", "q", "r", "s", "t", "u", "v", "w", "x", "y", "z"}

\* the characters of U+00C0..U+017F that the vocabularies and the inputs use
LatinExt == {"U+00C9", "U+00E9", "U+00C8", "U+00E8", "U+00CD", "U+00ED", "U+00D3", "U+00F3", "U+00C7", "U+00E7", "U+00C3", "U+00E3", "U+00DC", "U+00FC"}

\* the characters of U+0400..U+04FF that the inputs use
Cyrillic == {"U+0414", "U+0434"}

\* the characters of U+3040..U+309F, U+30A0..U+30FF, U+4E00..U+9FAF in use
Kana == {"U+306E", "U+30CE"}
CJKIdeograph == {"U+7B2C", "U+7AE0", "U+7BC0", "U+90E8", "U+8282", "U+4E00", "U+4E8C", "U+4E09", "U+56DB", "U+4E94", "U+516D", "U+4E03",
                 "U+516B", "U+4E5D", "U+5341", "U+8981", "U+7D04", "U+6982", "U+76EE", "U+6B21", "U+53C2", "U+8003", "U+6587", "U+732E",
                 "U+6458", "U+7B80", "U+4ECB", "U+5F55", "U+9875", "U+9801"}

\* the characters of U+0600..U+06FF that the vocabularies use
Arabic == {"U+0645", "U+0644", "U+062E", "U+0635", "U+0642", "U+062F", "U+0629", "U+0641", "U+0647", "U+0631", "U+0633", "U+0627", "U+062C", "U+0639"}

WhiteSpace == {" ", "\t", "\n"}

\* str.lower() on the cased characters above, and its inverse
LowerMap ==
    "A" :> "a" @@ "B" :> "b" @@ "C" :> "c" @@ "D" :> "d" @@ "E" :> "e" @@
    "F" :> "f" @@ "G" :> "g" @@ "H" :> "h" @@ "I" :> "i" @@ "J" :> "j" @@
    "K" :> "k" @@ "L" :> "l" @@ "M" :> "m" @@ "N" :> "n" @@ "O" :> "o" @@
    "P" :> "p" @@ "Q" :> "q" @@ "R" :> "r" @@ "S" :> "s" @@ "T" :> "t" @@
    "U" :> "u" @@ "V" :> "v" @@ "W" :> "w" @@ "X" :> "x" @@ "Y" :> "y" @@
    "Z" :> "z" @@ "U+00C9" :> "U+00E9" @@ "U+00C8" :> "U+00E8" @@ "U+00CD" :> "U+00ED" @@ "U+00D3" :> "U+00F3" @@
    "U+00C7" :> "U+00E7" @@ "U+00C3" :> "U+00E3" @@ "U+00DC" :> "U+00FC" @@ "U+0414" :> "U+0434"

UpperMap ==
    "a" :> "A" @@ "b" :> "B" @@ "c" :> "C" @@ "d" :> "D" @@ "e" :> "E" @@
    "f" :> "F" @@ "g" :> "G" @@ "h" :> "H" @@ "i" :> "I" @@ "j" :> "J" @@
    "k" :> "K" @@ "l" :> "L" @@ "m" :> "M" @@ "n" :> "N" @@ "o" :> "O" @@
    "p" :> "P" @@ "q" :> "Q" @@ "r" :> "R" @@ "s" :> "S" @@ "t" :> "T" @@
    "u" :> "U" @@ "v" :> "V" @@ "w" :> "W" @@ "x" :> "X" @@ "y" :> "Y" @@
    "z" :> "Z" @@ "U+00E9" :> "U+00C9" @@ "U+00E8" :> "U+00C8" @@ "U+00ED" :> "U+00CD" @@ "U+00F3" :> "U+00D3" @@
    "U+00E7" :> "U+00C7" @@ "U+00E3" :> "U+00C3" @@ "U+00FC" :> "U+00DC" @@ "U+0434" :> "U+0414"

LowerChar(c) == IF c \in DOMAIN LowerMap THEN LowerMap[c] ELSE c

UpperChar(c) == IF c \in DOMAIN UpperMap THEN UpperMap[c] ELSE c

\* str.lower()
lower(s) == [k \in 1..Len(s) |-> LowerChar(s[k])]

\* str.strip()
strip(s) ==
    LET inked == {k \in 1..Len(s) : s[k] \notin WhiteSpace}
    IN  IF inked = {} THEN <<>>
        ELSE SubSeq(s, CHOOSE k \in inked : \A j \in inked : k <= j,
                       CHOOSE k \in inked : \A j \in inked : k >= j)

RECURSIVE CollapseFrom(_, _)
\* re.sub(r'\s+', ' ', s) from position k on
CollapseFrom(s, k) ==
    IF k > Len(s) THEN <<>>
    ELSE IF s[k] \notin WhiteSpace THEN <<s[k]>> \o CollapseFrom(s, k + 1)
    ELSE IF k > 1 /\ s[k - 1] \in WhiteSpace THEN CollapseFrom(s, k + 1)
    ELSE <<" ">> \o CollapseFrom(s, k + 1)

\* normalize_text; every character of the model is its own NFKC form
normalize_text(s) == CollapseFrom(strip(s), 1)

(***************************************************************************)
(* Regular expressions.                                                    *)
(***************************************************************************)
Cls(S)      == [t |-> "cls", set |-> S, neg |-> FALSE]    \* [...]
NotCls(S)   == [t |-> "cls", set |-> S, neg |-> TRUE]     \* [^...]
Chr(c)      == Cls({c})                                   \* a literal character
AnyChar     == [t |-> "any"]                              \* .
EndOfText   == [t |-> "end"]                              \* $
Cat(rs)     == [t |-> "cat", rs |-> rs]                   \* r1 r2 ...
Alt(rs)     == [t |-> "alt", rs |-> rs]                   \* r1 | r2 | ...
Rep(r, n)   == [t |-> "rep", r |-> r, min |-> n]          \* r{n,}
Star(r)     == Rep(r, 0)                                  \* r*
Plus(r)     == Rep(r, 1)                                  \* r+
Opt(r)      == Alt(<<r, Cat(<<>>)>>)                      \* r?
Lit(w)      == Cat([k \in 1..Len(w) |-> Chr(w[k])])       \* a literal word

\* whether character c is in class S; with re.IGNORECASE also through case folding
InClass(c, S, ic) ==
    \/ c \in S
    \/ ic /\ (LowerChar(c) \in S \/ UpperChar(c) \in S)

RECURSIVE Ends(_, _, _, _)
RECURSIVE CatEnds(_, _, _, _, _)
RECURSIVE RepEnds(_, _, _, _, _)
RECURSIVE Closure(_, _, _, _, _, _)

\* the positions after a match of r against s that starts at position i
Ends(r, s, i, ic) ==
    CASE r.t = "cls" ->
            IF i <= Len(s) /\ (InClass(s[i], r.set, ic) # r.neg) THEN {i + 1} ELSE {}
      [] r.t = "any" ->
            IF i <= Len(s) /\ s[i] # "\n" THEN {i + 1} ELSE {}
      [] r.t = "end" ->
            IF i = Len(s) + 1 \/ (i = Len(s) /\ s[i] = "\n") THEN {i} ELSE {}
      [] r.t = "cat" -> CatEnds(r.rs, 1, s, {i}, ic)
      [] r.t = "alt" -> UNION {Ends(r.rs[k], s, i, ic) : k \in 1..Len(r.rs)}
      [] r.t = "rep" -> RepEnds(r.r, r.min, s, {i}, ic)

CatEnds(rs, k, s, P, ic) ==
    IF k > Len(rs) \/ P = {} THEN P
    ELSE CatEnds(rs, k + 1, s, UNION {Ends(rs[k], s, p, ic) : p \in P}, ic)

\* every position reachable from P by matching r again and again: a match never ends
\* before its start, so the positions lo..hi are swept in increasing order, in halves
Closure(r, s, P, lo, hi, ic) ==
    IF lo > hi THEN P
    ELSE IF lo = hi THEN (IF lo \in P THEN P \cup Ends(r, s, lo, ic) ELSE P)
    ELSE LET mid  == (lo + hi) \div 2
             left == Closure(r, s, P, lo, mid, ic)
         IN  IF left = {} THEN {} ELSE Closure(r, s, left, mid + 1, hi, ic)

\* r at least n times from the positions of P
RepEnds(r, n, s, P, ic) ==
    IF P = {} THEN {}
    ELSE IF n > 0 THEN RepEnds(r, n - 1, s, UNION {Ends(r, s, p, ic) : p \in P}, ic)
    ELSE Closure(r, s, P, 1, Len(s) + 1, ic)

\* re.match(pattern, s) / re.match(pattern, s, re.IGNORECASE)
re_match(r, s, ic) == Ends(r, s, 1, ic) # {}

(***************************************************************************)
(* The pattern families and the vocabularies (__init__).                   *)
(***************************************************************************)
Space0     == Star(Cls(WhiteSpace))             \* \s*
Space1     == Plus(Cls(WhiteSpace))             \* \s+
Digits     == Plus(Cls(Digit))                  \* \d+
Roman      == Plus(Cls({"I", "V", "X"}))        \* [IVX]+
Rest       == Cat(<<Star(AnyChar), EndOfText>>) \* .*$

\* [A-Z\u00C0-\u017F\u0400-\u04FF]
UpperClass == Cls(UpperAZ \cup LatinExt \cup Cyrillic)
\* [\u3040-\u309F\u30A0-\u30FF\u4E00-\u9FAF]
CJKClass   == Cls(Kana \cup CJKIdeograph)
\* [a-z\u00C0-\u017F\u0400-\u04FF\u3040-\u309F\u30A0-\u30FF\u4E00-\u9FAF]
LowerClass == Cls(LowerAZ \cup LatinExt \cup Cyrillic \cup Kana \cup CJKIdeograph)
\* [\u4E00\u4E8C\u4E09\u56DB\u4E94\u516D\u4E03\u516B\u4E5D\u5341\d]
HanDigit   == Cls({"U+4E00", "U+4E8C", "U+4E09", "U+56DB", "U+4E94", "U+516D",
                   "U+4E03", "U+516B", "U+4E5D", "U+5341"} \cup Digit)

\* ^(?:w1|w2|w3)\s+(?:\d+|[IVX]+)
Keyword(w1, w2, w3) ==
    Cat(<<Alt(<<Lit(w1), Lit(w2), Lit(w3)>>), Space1, Alt(<<Digits, Roman>>)>>)

heading_patterns == [
    numbered |-> <<
        \* ^(?:\d+\.?\s*)+[^\d].*$
        Cat(<<Plus(Cat(<<Digits, Opt(Chr(".")), Space0>>)), NotCls(Digit), Rest>>),
        \* ^(?:[IVX]+\.?\s*)+.*$
        Cat(<<Plus(Cat(<<Roman, Opt(Chr(".")), Space0>>)), Rest>>),
        \* ^(?:[A-Z]\.?\s*)+.*$
        Cat(<<Plus(Cat(<<Cls(UpperAZ), Opt(Chr(".")), Space0>>)), Rest>>),
        \* ^(?:\([0-9]+\)\s*).*$
        Cat(<<Chr("("), Digits, Chr(")"), Space0, Rest>>),
        \* ^(?:\[[0-9]+\]\s*).*$
        Cat(<<Chr("["), Digits, Chr("]"), Space0, Rest>>) >>,
    chapter_section |-> <<
        Keyword(<<"C", "h", "a", "p", "t", "e", "r">>, <<"S", "e", "c", "t", "i", "o", "n">>,
                <<"P", "a", "r", "t">>),
        Keyword(<<"K", "a", "p", "i", "t", "e", "l">>,
                <<"A", "b", "s", "c", "h", "n", "i", "t", "t">>, <<"T", "e", "i", "l">>),
        Keyword(<<"C", "h", "a", "p", "i", "t", "r", "e">>,
                <<"S", "e", "c", "t", "i", "o", "n">>, <<"P", "a", "r", "t", "i", "e">>),
        Keyword(<<"C", "a", "p", "U+00ED", "t", "u", "l", "o">>,
                <<"S", "e", "c", "c", "i", "U+00F3", "n">>, <<"P", "a", "r", "t", "e">>),
        Keyword(<<"C", "a", "p", "i", "t", "o", "l", "o">>,
                <<"S", "e", "z", "i", "o", "n", "e">>, <<"P", "a", "r", "t", "e">>),
        Keyword(<<"C", "a", "p", "U+00ED", "t", "u", "l", "o">>,
                <<"S", "e", "U+00E7", "U+00E3", "o">>, <<"P", "a", "r", "t", "e">>),
        \* ^(?:\u7B2C\d+\u7AE0|\u7B2C\d+\u7BC0|\u7B2C\d+\u90E8)
        Alt(<<Cat(<<Chr("U+7B2C"), Digits, Chr("U+7AE0")>>),
              Cat(<<Chr("U+7B2C"), Digits, Chr("U+7BC0")>>),
              Cat(<<Chr("U+7B2C"), Digits, Chr("U+90E8")>>)>>),
        \* ^(?:\u7B2C[...\d]+\u7AE0|\u7B2C[...\d]+\u8282)
        Alt(<<Cat(<<Chr("U+7B2C"), Plus(HanDigit), Chr("U+7AE0")>>),
              Cat(<<Chr("U+7B2C"), Plus(HanDigit), Chr("U+8282")>>)>>) >>,
    all_caps |-> <<
        \* ^[A-Z...]{3,}(?:\s+[A-Z...]{3,})*\s*$
        Cat(<<Rep(UpperClass, 3), Star(Cat(<<Space1, Rep(UpperClass, 3)>>)), Space0,
              EndOfText>>),
        \* ^[CJK]{3,}\s*$
        Cat(<<Rep(CJKClass, 3), Space0, EndOfText>>) >>,
    title_case |-> <<
        \* ^[A-Z\u00C0-\u017F][a-z...].{2,}$
        Cat(<<Cls(UpperAZ \cup LatinExt), LowerClass, Rep(AnyChar, 2), EndOfText>>) >> ]

non_heading_words == [
    english |-> {
        <<"a", "b", "s", "t", "r", "a", "c", "t">>,
        <<"i", "n", "t", "r", "o", "d", "u", "c", "t", "i", "o", "n">>,
        <<"c", "o", "n", "t", "e", "n", "t", "s">>,
        <<"t", "a", "b", "l", "e", " ", "o", "f", " ", "c", "o", "n", "t", "e", "n", "t", "s">>,
        <<"r", "e", "f", "e", "r", "e", "n", "c", "e", "s">>,
        <<"b", "i", "b", "l", "i", "o", "g", "r", "a", "p", "h", "y">> },
    german |-> {
        <<"z", "u", "s", "a", "m", "m", "e", "n", "f", "a", "s", "s", "u", "n", "g">>,
        <<"e", "i", "n", "l", "e", "i", "t", "u", "n", "g">>,
        <<"i", "n", "h", "a", "l", "t", "s", "v", "e", "r", "z", "e", "i", "c", "h", "n", "i", "s">>,
        <<"l", "i", "t", "e", "r", "a", "t", "u", "r">>,
        <<"b", "i", "b", "l", "i", "o", "g", "r", "a", "p", "h", "i", "e">> },
    french |-> {
        <<"r", "U+00E9", "s", "u", "m", "U+00E9">>,
        <<"i", "n", "t", "r", "o", "d", "u", "c", "t", "i", "o", "n">>,
        <<"t", "a", "b", "l", "e", " ", "d", "e", "s", " ", "m", "a", "t", "i", "U+00E8", "r", "e", "s">>,
        <<"r", "U+00E9", "f", "U+00E9", "r", "e", "n", "c", "e", "s">>,
        <<"b", "i", "b", "l", "i", "o", "g", "r", "a", "p", "h", "i", "e">> },
    spanish |-> {
        <<"r", "e", "s", "u", "m", "e", "n">>,
        <<"i", "n", "t", "r", "o", "d", "u", "c", "c", "i", "U+00F3", "n">>,
        <<"U+00ED", "n", "d", "i", "c", "e">>,
        <<"r", "e", "f", "e", "r", "e", "n", "c", "i", "a", "s">>,
        <<"b", "i", "b", "l", "i", "o", "g", "r", "a", "f", "U+00ED", "a">> },
    japanese |-> {
        <<"U+8981", "U+7D04">>,
        <<"U+6982", "U+8981">>,
        <<"U+76EE", "U+6B21">>,
        <<"U+53C2", "U+8003", "U+6587", "U+732E">> },
    chinese |-> {
        <<"U+6458", "U+8981">>,
        <<"U+7B80", "U+4ECB">>,
        <<"U+76EE", "U+5F55">>,
        <<"U+53C2", "U+8003", "U+6587", "U+732E">> },
    arabic |-> {
        <<"U+0645", "U+0644", "U+062E", "U+0635">>,
        <<"U+0645", "U+0642", "U+062F", "U+0645", "U+0629">>,
        <<"U+0641", "U+0647", "U+0631", "U+0633">>,
        <<"U+0645", "U+0631", "U+0627", "U+062C", "U+0639">> } ]

(***************************************************************************)
(* The heading classifier.                                                 *)
(***************************************************************************)
\* some pattern of the list matches
AnyMatch(patterns, s, ic) == \E k \in 1..Len(patterns) : re_match(patterns[k], s, ic)

\* matches_heading_pattern: <<matched, family>>
matches_heading_pattern(s, language) ==
    IF AnyMatch(heading_patterns.numbered, s, TRUE) THEN <<TRUE, "numbered">>
    ELSE IF AnyMatch(heading_patterns.chapter_section, s, TRUE) THEN <<TRUE, "chapter_section">>
    ELSE IF AnyMatch(heading_patterns.all_caps, s, FALSE) THEN <<TRUE, "all_caps">>
    ELSE IF AnyMatch(heading_patterns.title_case, s, FALSE) THEN <<TRUE, "title_case">>
    ELSE <<FALSE, "none">>

\* word in s
Contains(s, w) ==
    \E k \in 1..(Len(s) - Len(w) + 1) : \A j \in 1..Len(w) : s[k + j - 1] = w[j]

\* ^[\d\s\-\/\.]+$
PureNumber == Cat(<<Plus(Cls(Digit \cup WhiteSpace \cup {"-", "/", "."})), EndOfText>>)

is_likely_non_heading(s) ==
    LET text_lower == lower(s)
    IN  IF \E lang \in DOMAIN non_heading_words :
              \E w \in non_heading_words[lang] : Contains(text_lower, w) THEN TRUE
        ELSE IF Len(s) < 3 \/ Len(s) > 200 THEN TRUE
        ELSE IF re_match(PureNumber, s, FALSE) THEN TRUE
        ELSE FALSE

\* ^\d+\.\s+   ^\d+\.\d+\s+   ^\d+\.\d+\.\d+\s+
NumberedH1 == Cat(<<Digits, Chr("."), Space1>>)
NumberedH2 == Cat(<<Digits, Chr("."), Digits, Space1>>)
NumberedH3 == Cat(<<Digits, Chr("."), Digits, Chr("."), Digits, Space1>>)

\* font_size / avg_font_size > tenths / 10, with font_size_ratio 1 when avg <= 0
RatioAbove(font_size, avg_font_size, tenths) ==
    IF avg_font_size.num > 0
    THEN font_size * avg_font_size.den * 10 > tenths * avg_font_size.num
    ELSE 10 > tenths

PatternScore(family) ==
    CASE family = "numbered" -> 4
      [] family = "chapter_section" -> 5
      [] family = "all_caps" -> 3
      [] family = "title_case" -> 2
      [] OTHER -> 0

\* FontScore with each threshold inclusive (>= for >)
FontScore_Inclusive(font_size, avg_font_size) ==
    LET n == IF avg_font_size.num > 0 THEN font_size * avg_font_size.den * 10 ELSE 10
        d == IF avg_font_size.num > 0 THEN avg_font_size.num ELSE 1
    IN  IF n >= 18 * d THEN 4
        ELSE IF n >= 15 * d THEN 3
        ELSE IF n >= 12 * d THEN 2
        ELSE IF n >= 11 * d THEN 1
        ELSE 0

FontScore(font_size, avg_font_size) ==
    IF RatioAbove(font_size, avg_font_size, 18) THEN 4
    ELSE IF RatioAbove(font_size, avg_font_size, 15) THEN 3
    ELSE IF RatioAbove(font_size, avg_font_size, 12) THEN 2
    ELSE IF RatioAbove(font_size, avg_font_size, 11) THEN 1
    ELSE 0

\* classify_heading_level with the numbering overrides tried after the score
classify_heading_level_ScoreFirst(s, font_size, is_bold, avg_font_size, max_font_size, language) ==
    IF is_likely_non_heading(s) THEN "None"
    ELSE
        LET family == matches_heading_pattern(s, language)[2]
            score  == PatternScore(family) + FontScore(font_size, avg_font_size)
                      + (IF is_bold THEN 2 ELSE 0)
        IN  IF family = "chapter_section" THEN "H1"
            ELSE IF score >= 6 THEN "H1"
            ELSE IF score >= 4 THEN "H2"
            ELSE IF score >= 3 THEN "H3"
            ELSE IF re_match(NumberedH1, s, FALSE) THEN "H1"
            ELSE IF re_match(NumberedH2, s, FALSE) THEN "H2"
            ELSE IF re_match(NumberedH3, s, FALSE) THEN "H3"
            ELSE "None"

classify_heading_level(s, font_size, is_bold, avg_font_size, max_font_size, language) ==
    IF is_likely_non_heading(s) THEN "None"
    ELSE
        LET family == matches_heading_pattern(s, language)[2]
            score  == PatternScore(family) + FontScore(font_size, avg_font_size)
                      + (IF is_bold THEN 2 ELSE 0)
        IN  IF re_match(NumberedH1, s, FALSE) THEN "H1"
            ELSE IF re_match(NumberedH2, s, FALSE) THEN "H2"
            ELSE IF re_match(NumberedH3, s, FALSE) THEN "H3"
            ELSE IF family = "chapter_section" THEN "H1"
            ELSE IF score >= 6 THEN "H1"
            ELSE IF score >= 4 THEN "H2"
            ELSE IF score >= 3 THEN "H3"
            ELSE "None"

(***************************************************************************)
(* Texts used as inputs.                                                   *)
(***************************************************************************)
Text_1_Introduction ==
    <<"1", ".", " ", "I", "n", "t", "r", "o", "d", "u", "c", "t", "i", "o", "n">>
Text_1_Scope == <<"1", ".", " ", "S", "c", "o", "p", "e">>
Text_1_1_Background == <<"1", ".", "1", " ", "B", "a", "c", "k", "g", "r", "o", "u", "n", "d">>
Text_1_1_1_Detail == <<"1", ".", "1", ".", "1", " ", "D", "e", "t", "a", "i", "l">>
Text_Chapter_3 == <<"C", "h", "a", "p", "t", "e", "r", " ", "3">>
Text_chapter_3 == <<"c", "h", "a", "p", "t", "e", "r", " ", "3">>
Text_CHAPTER_3 == <<"C", "H", "A", "P", "T", "E", "R", " ", "3">>
Text_Dai_3_Sho == <<"U+7B2C", "3", "U+7AE0">>
Text_Annual_Report == <<"A", "n", "n", "u", "a", "l", " ", "R", "e", "p", "o", "r", "t">>
Text_SUMMARY == <<"S", "U", "M", "M", "A", "R", "Y">>
Text_Summary == <<"S", "u", "m", "m", "a", "r", "y">>
Text_Project_Abstract ==
    <<"P", "r", "o", "j", "e", "c", "t", " ", "A", "b", "s", "t", "r", "a", "c", "t">>
Text_Uebersicht == <<"U+00DC", "b", "e", "r", "s", "i", "c", "h", "t">>
Text_Paren_1_Scope == <<"(", "1", ")", " ", "S", "c", "o", "p", "e">>
Text_Dash_item == <<"-", " ", "i", "t", "e", "m">>
Text_Annual_Report_2024 ==
    <<"A", "n", "n", "u", "a", "l", " ", "R", "e", "p", "o", "r", "t", " ", "2", "0", "2", "4">>
Text_Page_1 == <<"P", "a", "g", "e", " ", "1">>
Text_Title == <<"T", "i", "t", "l", "e">>
Text_Titles == <<"T", "i", "t", "l", "e", "s">>
Text_Table_of_Contents ==
    <<"T", "a", "b", "l", "e", " ", "o", "f", " ", "C", "o", "n", "t", "e", "n", "t", "s">>
Text_Contents == <<"C", "o", "n", "t", "e", "n", "t", "s">>
Text_Abstract == <<"A", "b", "s", "t", "r", "a", "c", "t">>

(***************************************************************************)
(* Specification SpecClassify: matches_heading_pattern and                 *)
(* classify_heading_level applied to every text of a bounded set under     *)
(* every formatting of a set that straddles each font-ratio threshold.     *)
(***************************************************************************)
MaxTextLen == 4

RECURSIVE SeqsUpTo(_, _)
SeqsUpTo(A, n) ==
    IF n = 0 THEN {<<>>}
    ELSE LET R == SeqsUpTo(A, n - 1)
         IN  R \cup {Append(r, a) : r \in {x \in R : Len(x) = n - 1}, a \in A}

ClassifyAlphabet == {"1", ".", " ", "A", "b", "U+00C9"}

\* the texts extract_text_with_formatting can emit: normalized and not empty
ClassifyTexts ==
    ({normalize_text(s) : s \in SeqsUpTo(ClassifyAlphabet, MaxTextLen)} \ {<<>>}) \cup
    {Text_1_Introduction, Text_1_Scope, Text_1_1_Background, Text_1_1_1_Detail,
     Text_Chapter_3, Text_chapter_3, Text_CHAPTER_3, Text_Dai_3_Sho, Text_Annual_Report,
     Text_SUMMARY, Text_Project_Abstract, Text_Uebersicht, Text_Paren_1_Scope,
     Text_Dash_item}

\* ratios 1, 1.05, 1.1, 1.15, 1.2, 1.25, 1.5, 1.55, 1.8, 1.85 and a zero average
Formats ==
    {[font_size |-> f, avg_font_size |-> [num |-> 20, den |-> 1], is_bold |-> b] :
        f \in {20, 21, 22, 23, 24, 25, 30, 31, 36, 37}, b \in BOOLEAN} \cup
    {[font_size |-> f, avg_font_size |-> [num |-> 0, den |-> 1], is_bold |-> b] :
        f \in {20, 37}, b \in BOOLEAN}

NoFormat == [font_size |-> 0, avg_font_size |-> [num |-> 0, den |-> 1], is_bold |-> FALSE]

\* the variables an entry point does not use
IdleClassifier == text = <<>> /\ pattern_type = "" /\ fmt = NoFormat /\ level = ""
IdleDocument   == text_blocks = <<>> /\ title = <<>> /\ outline = <<>> /\ seen_headings = {}
IdleBatch      == faults = <<>> /\ outputs = <<>> /\ escaped = FALSE

InitClassify ==
    /\ mode = "classify"
    /\ pc = "start"
    /\ text \in ClassifyTexts
    /\ pattern_type = ""
    /\ fmt = NoFormat
    /\ level = ""
    /\ idx = 0
    /\ IdleDocument
    /\ IdleBatch

\* a call of matches_heading_pattern(text, language)
MatchesHeadingPattern ==
    /\ mode = "classify"
    /\ pc = "start"
    /\ pattern_type' = matches_heading_pattern(text, "latin")[2]
    /\ pc' = "matched"
    /\ UNCHANGED <<mode, text, fmt, level, text_blocks, title, idx, outline,
                   seen_headings, faults, outputs, escaped>>

\* a call of classify_heading_level(text, font_size, is_bold, avg_font_size, ...)
ClassifyHeadingLevel ==
    /\ mode = "classify"
    /\ pc = "matched"
    /\ \E f \in Formats :
        /\ fmt' = f
        /\ level' = classify_heading_level(text, f.font_size, f.is_bold, f.avg_font_size,
                                           f.font_size, "latin")
    /\ pc' = "classified"
    /\ UNCHANGED <<mode, text, pattern_type, text_blocks, title, idx, outline,
                   seen_headings, faults, outputs, escaped>>

NextClassify == MatchesHeadingPattern \/ ClassifyHeadingLevel

SpecClassify == InitClassify /\ [][NextClassify]_vars

(***************************************************************************)
(* Properties of the classifier.                                           *)
(***************************************************************************)
\* the text has k digits from position i on
DigitRun(s, i, k) == k >= 1 /\ i + k - 1 <= Len(s) /\ \A j \in i..(i + k - 1) : s[j] \in Digit

\* the text starts with <int>. followed by a blank
StartsInt1(s) ==
    \E a \in 1..Len(s) :
        /\ DigitRun(s, 1, a)
        /\ a + 2 <= Len(s) /\ s[a + 1] = "." /\ s[a + 2] \in WhiteSpace

\* the text starts with <int>.<int> followed by a blank
StartsInt2(s) ==
    \E a, b \in 1..Len(s) :
        /\ DigitRun(s, 1, a)
        /\ a + 1 <= Len(s) /\ s[a + 1] = "."
        /\ DigitRun(s, a + 2, b)
        /\ a + b + 2 <= Len(s) /\ s[a + b + 2] \in WhiteSpace

\* the text starts with <int>.<int>.<int> followed by a blank
StartsInt3(s) ==
    \E a, b, c \in 1..Len(s) :
        /\ DigitRun(s, 1, a)
        /\ a + 1 <= Len(s) /\ s[a + 1] = "."
        /\ DigitRun(s, a + 2, b)
        /\ a + b + 2 <= Len(s) /\ s[a + b + 2] = "."
        /\ DigitRun(s, a + b + 3, c)
        /\ a + b + c + 3 <= Len(s) /\ s[a + b + c + 3] \in WhiteSpace

\* the level the numbering depth of the text stands for, "" without such a prefix
DepthLevel(s) ==
    IF StartsInt1(s) THEN "H1"
    ELSE IF StartsInt2(s) THEN "H2"
    ELSE IF StartsInt3(s) THEN "H3"
    ELSE ""

\* C1 as stated: a text with a decimal-numbering prefix is classified by its
\* numbering depth alone (<int>. is H1, <int>.<int> is H2, <int>.<int>.<int> is
\* H3), for every font size, average and boldness.
C1_DepthAlone ==
    (pc = "classified" /\ DepthLevel(text) # "") => level = DepthLevel(text)

\* C1 amended: a text with a decimal-numbering prefix that is_likely_non_heading
\* accepts is classified by its numbering depth alone, for every font size,
\* average and boldness; one that is_likely_non_heading rejects is classified None.
C1_DepthAloneWhenAccepted ==
    (pc = "classified" /\ DepthLevel(text) # "") =>
        level = (IF is_likely_non_heading(text) THEN "None" ELSE DepthLevel(text))

\* C1 witness: "1.1 Background", bold at ratio 1.85 (score 10), is classified H2
C1_Witness ==
    /\ pc = "classified"
    /\ text = Text_1_1_Background
    /\ fmt.font_size = 37 /\ fmt.avg_font_size.num = 20 /\ fmt.is_bold
    /\ level = "H2"

\* C2 as stated: a chapter/section keyword followed by a numeral, without a
\* decimal-numbering prefix, is classified H1 under every formatting.
C2_ChapterIsH1 ==
    (/\ pc = "classified"
     /\ AnyMatch(heading_patterns.chapter_section, text, TRUE)
     /\ DepthLevel(text) = "")
        => level = "H1"

\* an enumeration marker at the start of the text, read as widely as C8 allows:
\* a digit, a roman numeral or a letter before a period, "(1)", "[1]"
EnumerationMarker ==
    Alt(<<Cls(Digit),
          Cat(<<Roman, Chr(".")>>),
          Cat(<<Cls(UpperAZ), Chr(".")>>),
          Cat(<<Chr("("), Digits, Chr(")")>>),
          Cat(<<Chr("["), Digits, Chr("]")>>)>>)

\* C8 as stated: matches_heading_pattern returns the first family, in the order
\* numbered, chapter_section, all_caps, title_case, that the text meets: a text
\* with no enumeration marker and no chapter keyword yields all_caps when it is
\* made of upper-case words of three or more letters (as "SUMMARY"), and otherwise
\* title_case when it starts with a capital, a lowercase letter and at least two
\* more characters (as "Annual Report").
C8_FirstFamily ==
    (/\ pc \in {"matched", "classified"}
     /\ ~re_match(EnumerationMarker, text, TRUE)
     /\ ~AnyMatch(heading_patterns.chapter_section, text, TRUE))
        => /\ AnyMatch(heading_patterns.all_caps, text, FALSE) => pattern_type = "all_caps"
           /\ (/\ ~AnyMatch(heading_patterns.all_caps, text, FALSE)
               /\ AnyMatch(heading_patterns.title_case, text, FALSE))
                  => pattern_type = "title_case"
           /\ text = Text_Annual_Report => pattern_type = "title_case"
           /\ text = Text_SUMMARY => pattern_type = "all_caps"

\* the score of C9, from the family returned and the formatting
C9_Score ==
    LET a == fmt.avg_font_size
        r == IF a.num > 0 THEN <<fmt.font_size * a.den, a.num>> ELSE <<1, 1>>
        family_points ==
            IF pattern_type = "numbered" THEN 4
            ELSE IF pattern_type = "all_caps" THEN 3
            ELSE IF pattern_type = "title_case" THEN 2
            ELSE 0
        ratio_points ==
            IF 10 * r[1] > 18 * r[2] THEN 4
            ELSE IF 10 * r[1] > 15 * r[2] THEN 3
            ELSE IF 10 * r[1] > 12 * r[2] THEN 2
            ELSE IF 10 * r[1] > 11 * r[2] THEN 1
            ELSE 0
    IN  family_points + ratio_points + (IF fmt.is_bold THEN 2 ELSE 0)

\* C9: a text that is_likely_non_heading accepts, without a decimal-numbering
\* prefix and of a family other than chapter_section, is classified by its score:
\* >= 6 is H1, 4 or 5 is H2, 3 is H3, below 3 is None; title_case at ratio 1.15 and
\* bold is H2, title_case at ratio 1.05 and not bold is None.
C9_ScoreDecides ==
    (/\ pc = "classified"
     /\ ~is_likely_non_heading(text)
     /\ DepthLevel(text) = ""
     /\ pattern_type # "chapter_section")
        => /\ level = (IF C9_Score >= 6 THEN "H1"
                       ELSE IF C9_Score >= 4 THEN "H2"
                       ELSE IF C9_Score = 3 THEN "H3"
                       ELSE "None")
           /\ (pattern_type = "title_case" /\ fmt.avg_font_size.num = 20) =>
                /\ (fmt.font_size = 23 /\ fmt.is_bold) => level = "H2"
                /\ (fmt.font_size = 21 /\ ~fmt.is_bold) => level = "None"

\* C9 witness: a title_case text at ratio 1.15 and bold is classified H2
C9_Witness ==
    /\ pc = "classified"
    /\ text = Text_Uebersicht
    /\ pattern_type = "title_case"
    /\ fmt.font_size = 23 /\ fmt.avg_font_size.num = 20 /\ fmt.is_bold
    /\ level = "H2"

(***************************************************************************)
(* The title selector.                                                     *)
(***************************************************************************)
Text_Untitled_Document ==
    <<"U", "n", "t", "i", "t", "l", "e", "d", " ", "D", "o", "c", "u", "m", "e", "n", "t">>

\* a text block: [text, page, font_size, font_flags, bbox], bbox = <<x0, y0, x1, y1>>
Block(t, p, size, flags, top) ==
    [text |-> t, page |-> p, font_size |-> size, font_flags |-> flags,
     bbox |-> <<0, top, 100, top + size>>]

\* key1 <= key2 for keys <<a, b>> compared as Python tuples
KeyLE(k1, k2) == k1[1] < k2[1] \/ (k1[1] = k2[1] /\ k1[2] <= k2[2])

\* list.sort(key=...) / sorted(..., key=...): stable, ascending; keys[k] is the key of items[k].
\* An item goes after the earlier items whose key is <= its own and after the later items
\* whose key is strictly smaller.
StableSort(items, keys) ==
    LET n     == Len(items)
        place == [k \in 1..n |->
                    1 + Cardinality({j \in 1..n :
                            \/ j < k /\ KeyLE(keys[j], keys[k])
                            \/ j > k /\ ~KeyLE(keys[k], keys[j])})]
    IN  [p \in 1..n |-> items[CHOOSE k \in 1..n : place[k] = p]]

\* the sort key of extract_title: (-font_size, bbox[1])
TitleSortKey_Ascending(block) == <<block.font_size, block.bbox[2]>>

TitleSortKey(block) == <<0 - block.font_size, block.bbox[2]>>

\* ^(?:Page|页|頁|\d+)(?:\s|$), matched with re.IGNORECASE
PageMarker ==
    Cat(<<Alt(<<Lit(<<"P", "a", "g", "e">>), Chr("U+9875"), Chr("U+9801"), Digits>>),
          Alt(<<Cls(WhiteSpace), EndOfText>>)>>)

\* ^\d+\.
NumberedPrefix == Cat(<<Digits, Chr(".")>>)

TitleScanLimit == 15

\* the body of the first loop of extract_title: whether the block is returned
IsTitle(block) ==
    LET t == strip(block.text)
    IN  IF is_likely_non_heading(t) THEN FALSE
        ELSE IF re_match(PageMarker, t, TRUE) THEN FALSE
        ELSE Len(t) > 5 /\ Len(t) < 150 /\ ~re_match(NumberedPrefix, t, FALSE)

\* the body of the fallback loop of extract_title
IsSubstantial(block) == Len(strip(block.text)) > 10 /\ Len(strip(block.text)) < 100

\* the text of the first of the blocks at the positions hits, <<>> without one
FirstText(blocks, hits) ==
    IF hits = {} THEN <<>>
    ELSE strip(blocks[CHOOSE k \in hits : \A j \in hits : k <= j].text)

extract_title(blocks, language) ==
    LET page12 == SelectSeq(blocks, LAMBDA b : b.page <= 2)
        first_page_blocks ==
            StableSort(page12, [k \in 1..Len(page12) |-> TitleSortKey(page12[k])])
        n == Len(first_page_blocks)
        scanned == IF n < TitleScanLimit THEN n ELSE TitleScanLimit
        top == FirstText(first_page_blocks, {k \in 1..scanned : IsTitle(first_page_blocks[k])})
        \* the fallback loop runs over the list the sort has reordered in place
        fallback ==
            FirstText(first_page_blocks, {k \in 1..n : IsSubstantial(first_page_blocks[k])})
    IN  IF n = 0 THEN Text_Untitled_Document
        ELSE IF top # <<>> THEN top
        ELSE IF fallback # <<>> THEN fallback
        ELSE Text_Untitled_Document

(***************************************************************************)
(* Specification SpecTitle: extract_title applied to every short block     *)
(* list over a set of page-1 and page-3 fragments, and to lists in which   *)
(* large page markers take 14 or 15 of the first 15 places.                *)
(***************************************************************************)
MaxTitleBlocks == 2

\* "1." followed by letters, n characters long: a numbered heading
NumberedText(n) == <<"1", ".">> \o [k \in 1..(n - 2) |-> "a"]

\* "T" followed by letters, n characters long
PlainText(n) == <<"T">> \o [k \in 1..(n - 1) |-> "a"]

TitleTexts ==
    {Text_Annual_Report_2024, Text_Page_1, Text_1_1_Background, Text_Title, Text_Titles,
     Text_Table_of_Contents, Text_Contents, NumberedText(10), NumberedText(11)}

\* texts at the upper length limits of the two loops
LongTexts == {NumberedText(99), NumberedText(100), PlainText(149), PlainText(150)}

\* (font_size, top): a larger font, and two tops at the same font
TitleLayouts == {<<20, 10>>, <<10, 5>>, <<10, 10>>}

TitleFragments ==
    {Block(t, 1, l[1], 0, l[2]) : t \in TitleTexts, l \in TitleLayouts} \cup
    {Block(t, 3, 20, 0, 10) : t \in {Text_Annual_Report_2024, Text_Table_of_Contents}}

\* n page markers in a font larger than every other fragment's
PageMarkers(n) == [k \in 1..n |-> Block(Text_Page_1, 1 + (k % 2), 30, 0, k)]

CrowdedFragments ==
    {Block(t, 1, l[1], 0, l[2]) :
        t \in {Text_Annual_Report_2024, Text_Table_of_Contents, Text_Title},
        l \in {<<20, 10>>, <<10, 5>>}}

TitleInputs ==
    \* every short list
    SeqsUpTo(TitleFragments, MaxTitleBlocks) \cup
    \* lists whose first 14 or 15 places of the order are page markers
    {PageMarkers(n) \o tail :
        n \in {TitleScanLimit - 1, TitleScanLimit},
        tail \in SeqsUpTo(CrowdedFragments, MaxTitleBlocks)} \cup
    \* a long text alone, before and after another fragment
    {<<Block(t, 1, 15, 0, 10)>> : t \in LongTexts} \cup
    {<<Block(t, 1, 15, 0, 10), b>> : t \in LongTexts, b \in CrowdedFragments} \cup
    {<<b, Block(t, 1, 15, 0, 10)>> : t \in LongTexts, b \in CrowdedFragments}

InitTitle ==
    /\ mode = "title"
    /\ pc = "start"
    /\ text_blocks \in TitleInputs
    /\ title = <<>>
    /\ outline = <<>>
    /\ seen_headings = {}
    /\ idx = 0
    /\ IdleClassifier
    /\ IdleBatch

\* a call of extract_title(text_blocks, language)
ExtractTitle ==
    /\ mode = "title"
    /\ pc = "start"
    /\ title' = extract_title(text_blocks, "latin")
    /\ pc' = "done"
    /\ UNCHANGED <<mode, text, pattern_type, fmt, level, text_blocks, idx, outline,
                   seen_headings, faults, outputs, escaped>>

NextTitle == ExtractTitle

SpecTitle == InitTitle /\ [][NextTitle]_vars

(***************************************************************************)
(* Properties of the title selector.                                       *)
(***************************************************************************)
\* the positions of the page <= 2 fragments in the input
Candidates == {k \in 1..Len(text_blocks) : text_blocks[k].page <= 2}

\* fragment i comes before fragment j: larger font first, then higher on the page,
\* then earlier in the input
Before(i, j) ==
    LET a == text_blocks[i]
        b == text_blocks[j]
    IN  \/ a.font_size > b.font_size
        \/ a.font_size = b.font_size /\ a.bbox[2] < b.bbox[2]
        \/ a.font_size = b.font_size /\ a.bbox[2] = b.bbox[2] /\ i < j

\* the candidates among the first 15 of that order
TopCandidates ==
    {j \in Candidates : Cardinality({i \in Candidates : Before(i, j)}) < 15}

\* the text starts with digits and a period
StartsDigitsDot(s) == \E a \in 1..Len(s) : DigitRun(s, 1, a) /\ a < Len(s) /\ s[a + 1] = "."

TrimmedText(k) == strip(text_blocks[k].text)

\* the candidate survives the three skip rules
Survives(k) ==
    /\ ~is_likely_non_heading(TrimmedText(k))
    /\ ~re_match(PageMarker, TrimmedText(k), TRUE)
    /\ ~StartsDigitsDot(TrimmedText(k))

\* the first position of S in the order
FirstOf(S) == CHOOSE j \in S : \A i \in S \ {j} : Before(j, i)

Survivors == {k \in TopCandidates : Survives(k)}

TitleLike == {k \in Survivors : Len(TrimmedText(k)) > 5 /\ Len(TrimmedText(k)) < 150}

\* C5 as stated: when a candidate of the top 15 survives the three skip rules,
\* extract_title returns the text of the first surviving candidate.
C5_FirstSurvivor ==
    (pc = "done" /\ Survivors # {}) => title = TrimmedText(FirstOf(Survivors))

\* C5 amended: when a candidate of the top 15 survives the three skip rules and
\* its trimmed length is strictly between 5 and 150, extract_title returns the
\* text of the first such candidate.
C5_FirstTitleLikeSurvivor ==
    (pc = "done" /\ TitleLike # {}) => title = TrimmedText(FirstOf(TitleLike))

\* C5 witness: a survivor too short to be a title comes first, and the title is
\* the first survivor of a title's length
C5_Witness ==
    /\ pc = "done"
    /\ TitleLike # {}
    /\ FirstOf(Survivors) \notin TitleLike
    /\ title = TrimmedText(FirstOf(TitleLike))

\* C6 as stated: the returned title never starts with a decimal-numbering prefix.
C6_TitleNotNumbered == pc = "done" => ~StartsDigitsDot(title)

\* the page <= 2 fragments of a trimmed length strictly between 10 and 100
Substantial ==
    {k \in Candidates : Len(TrimmedText(k)) > 10 /\ Len(TrimmedText(k)) < 100}

\* C10 as stated: when the top-15 scan returns no candidate, extract_title
\* returns the first page <= 2 fragment, in input order, of a trimmed length
\* strictly between 10 and 100, and "Untitled Document" when there is none.
C10_FallbackInputOrder ==
    (pc = "done" /\ TitleLike = {}) =>
        title = (IF Substantial = {} THEN Text_Untitled_Document
                 ELSE TrimmedText(CHOOSE k \in Substantial : \A j \in Substantial : k <= j))

(***************************************************************************)
(* The outline builder.                                                    *)
(***************************************************************************)
\* is_bold: bit 4 of the font flags
is_bold(font_flags) == (font_flags \div 16) % 2 = 1

SampleLimit == 50

RECURSIVE CountChars(_, _, _, _)
\* the number of characters of class S in the texts of blocks[lo..hi]
CountChars(blocks, lo, hi, S) ==
    IF lo > hi THEN 0
    ELSE IF lo = hi
    THEN Cardinality({j \in 1..Len(blocks[lo].text) : blocks[lo].text[j] \in S})
    ELSE LET mid == (lo + hi) \div 2
         IN  CountChars(blocks, lo, mid, S) + CountChars(blocks, mid + 1, hi, S)

\* the characters of U+0020..U+024F in use
LatinChars ==
    UpperAZ \cup LowerAZ \cup Digit \cup LatinExt \cup {" ", ".", "-", "/", "(", ")", "[", "]"}

\* detect_language: the dominant script of the first 50 blocks on pages <= 3, joined
\* by blanks; max() returns the first of the largest counts
detect_language(blocks) ==
    LET head     == SubSeq(blocks, 1, IF Len(blocks) < SampleLimit THEN Len(blocks)
                                      ELSE SampleLimit)
        sample   == SelectSeq(head, LAMBDA b : b.page <= 3)
        latin    == CountChars(sample, 1, Len(sample), LatinChars)
                    + (IF Len(sample) > 0 THEN Len(sample) - 1 ELSE 0)
        cyrillic == CountChars(sample, 1, Len(sample), Cyrillic)
        cjk      == CountChars(sample, 1, Len(sample), Kana \cup CJKIdeograph)
        arabic   == CountChars(sample, 1, Len(sample), Arabic)
    IN  IF latin >= cyrillic /\ latin >= cjk /\ latin >= arabic THEN "latin"
        ELSE IF cyrillic >= cjk /\ cyrillic >= arabic THEN "cyrillic"
        ELSE IF cjk >= arabic THEN "cjk"
        ELSE "arabic"

RECURSIVE SumFontSizes(_, _, _)
\* sum(font_sizes) over blocks[lo..hi]
SumFontSizes(blocks, lo, hi) ==
    IF lo > hi THEN 0
    ELSE IF lo = hi THEN blocks[lo].font_size
    ELSE LET mid == (lo + hi) \div 2
         IN  SumFontSizes(blocks, lo, mid) + SumFontSizes(blocks, mid + 1, hi)

\* sum(font_sizes) / len(font_sizes), 12 without blocks
avg_font_size(blocks) ==
    IF Len(blocks) > 0 THEN [num |-> SumFontSizes(blocks, 1, Len(blocks)), den |-> Len(blocks)]
    ELSE [num |-> 12, den |-> 1]

\* max(font_sizes), 12 without blocks
max_font_size(blocks) ==
    IF Len(blocks) > 0
    THEN CHOOSE m \in {blocks[k].font_size : k \in 1..Len(blocks)} :
            \A k \in 1..Len(blocks) : blocks[k].font_size <= m
    ELSE 12

\* the scan loop skips every block but the empty ones
SkipBlock_EmptyOnly(t, seen) == t = <<>>

\* "if text in seen_headings or not text: continue"
SkipBlock(t, seen) == t \in seen \/ t = <<>>

LevelRank(l) == CASE l = "H1" -> 1 [] l = "H2" -> 2 [] l = "H3" -> 3

\* the outline sorted by page only
OutlineSortKey_PageOnly(entry) == <<entry.page, 0>>

\* the sort key of the outline: (page, level), levels compared as strings
OutlineSortKey(entry) == <<entry.page, LevelRank(entry.level)>>

OutlineLimit == 100

\* the sort and the truncation that end extract_outline
SortAndLimit(entries) ==
    LET sorted == StableSort(entries, [k \in 1..Len(entries) |-> OutlineSortKey(entries[k])])
    IN  IF Len(sorted) > OutlineLimit THEN SubSeq(sorted, 1, OutlineLimit) ELSE sorted

(***************************************************************************)
(* Specification SpecOutline: extract_outline, one scan iteration per      *)
(* step, on every short block list over a set of fragments and on long     *)
(* lists that yield about a hundred headings.                              *)
(***************************************************************************)
MaxOutlineBlocks == 3

\* a heading of depth 1 + (k % 3) whose text is k letters long
LongHeading(k) ==
    (CASE k % 3 = 0 -> <<"1", ".", " ">>
       [] k % 3 = 1 -> <<"1", ".", "1", " ">>
       [] k % 3 = 2 -> <<"1", ".", "1", ".", "1", " ">>) \o [j \in 1..k |-> "a"]

\* n distinct headings on pages that go up and down
LongInput(n) == [k \in 1..n |-> Block(LongHeading(k), 1 + ((k * 7) % 4), 10 + (k % 2), 4, k)]

OutlineFragments ==
    {Block(Text_1_Scope, p, 10, 4, 10) : p \in {1, 2}} \cup
    {Block(Text_1_1_1_Detail, p, 10, 4, 10) : p \in {1, 2}} \cup
    {Block(Text_Summary, p, f[1], f[2], 10) : p \in {1, 2}, f \in {<<10, 4>>, <<20, 20>>}} \cup
    {Block(Text_Dash_item, 1, 10, 4, 10), Block(Text_Dash_item, 2, 20, 20, 10),
     Block(Text_Abstract, 1, 20, 20, 10)}

OutlineInputs ==
    SeqsUpTo(OutlineFragments, MaxOutlineBlocks) \cup
    {LongInput(n) : n \in {OutlineLimit - 1, OutlineLimit, OutlineLimit + 2}}

InitOutline ==
    /\ mode = "outline"
    /\ pc = "start"
    /\ text_blocks \in OutlineInputs
    /\ title = <<>>
    /\ outline = <<>>
    /\ seen_headings = {}
    /\ idx = 0
    /\ IdleClassifier
    /\ IdleBatch

\* extract_outline without text: the empty result
ReturnEmpty ==
    /\ mode = "outline"
    /\ pc = "start"
    /\ text_blocks = <<>>
    /\ title' = Text_Untitled_Document
    /\ outline' = <<>>
    /\ pc' = "done"
    /\ UNCHANGED <<mode, text, pattern_type, fmt, level, text_blocks, idx, seen_headings,
                   faults, outputs, escaped>>

\* extract_outline up to the scan loop: the language, the font statistics, the title
BeginOutline ==
    /\ mode = "outline"
    /\ pc = "start"
    /\ text_blocks # <<>>
    /\ title' = extract_title(text_blocks, detect_language(text_blocks))
    /\ outline' = <<>>
    /\ seen_headings' = {}
    /\ idx' = 0
    /\ pc' = "scan"
    /\ UNCHANGED <<mode, text, pattern_type, fmt, level, text_blocks, faults, outputs,
                   escaped>>

\* one iteration of the scan loop
ScanBlock ==
    /\ mode = "outline"
    /\ pc = "scan"
    /\ idx < Len(text_blocks)
    /\ LET block == text_blocks[idx + 1]
           t     == strip(block.text)
           lvl   == classify_heading_level(t, block.font_size, is_bold(block.font_flags),
                                           avg_font_size(text_blocks),
                                           max_font_size(text_blocks),
                                           detect_language(text_blocks))
       IN  IF SkipBlock(t, seen_headings) \/ lvl = "None"
           THEN UNCHANGED <<outline, seen_headings>>
           ELSE /\ outline' = Append(outline, [level |-> lvl, text |-> t, page |-> block.page])
                /\ seen_headings' = seen_headings \cup {t}
    /\ idx' = idx + 1
    /\ UNCHANGED <<mode, pc, text, pattern_type, fmt, level, text_blocks, title, faults,
                   outputs, escaped>>

\* the end of extract_outline: sort, truncate, return
FinishOutline ==
    /\ mode = "outline"
    /\ pc = "scan"
    /\ idx = Len(text_blocks)
    /\ outline' = SortAndLimit(outline)
    /\ pc' = "done"
    /\ UNCHANGED <<mode, text, pattern_type, fmt, level, text_blocks, title, idx,
                   seen_headings, faults, outputs, escaped>>

NextOutline == ReturnEmpty \/ BeginOutline \/ ScanBlock \/ FinishOutline

SpecOutline == InitOutline /\ [][NextOutline]_vars

(***************************************************************************)
(* Properties of the outline builder.                                      *)
(***************************************************************************)
\* C3: at every point of extract_outline (after each scan iteration, after the
\* sort and the truncation) no two entries of the outline have the same text.
C3_NoDuplicateText ==
    mode = "outline" =>
        \A i, j \in 1..Len(outline) : i < j => outline[i].text # outline[j].text

\* C3 witness: a text occurs twice in the input with different font size and
\* boldness, and once in the returned outline
C3_Witness ==
    /\ mode = "outline"
    /\ pc = "done"
    /\ \E i, j \in 1..Len(text_blocks) :
        /\ i < j
        /\ text_blocks[i].text = text_blocks[j].text
        /\ text_blocks[i].font_size # text_blocks[j].font_size
        /\ text_blocks[i].font_flags # text_blocks[j].font_flags
        /\ \E k \in 1..Len(outline) : outline[k].text = text_blocks[i].text

\* (page, level) of e1 is at most (page, level) of e2, with H1 < H2 < H3
EntryLE(e1, e2) ==
    \/ e1.page < e2.page
    \/ e1.page = e2.page /\ e1.level = e2.level
    \/ e1.page = e2.page /\ <<e1.level, e2.level>> \in {<<"H1", "H2">>, <<"H1", "H3">>,
                                                         <<"H2", "H3">>}

\* C4: the outline extract_outline returns is sorted by (page, level).
C4_Sorted ==
    (mode = "outline" /\ pc = "done") =>
        \A i, j \in 1..Len(outline) : i < j => EntryLE(outline[i], outline[j])

\* C4 witness: more than 100 headings were accepted from pages out of order, and
\* the returned outline holds 100 entries of several pages and levels
C4_Witness ==
    /\ mode = "outline"
    /\ pc = "done"
    /\ Cardinality(seen_headings) > 100
    /\ Len(outline) = 100
    /\ \E k \in 1..(Len(text_blocks) - 1) : text_blocks[k].page > text_blocks[k + 1].page
    /\ \E i, j \in 1..Len(outline) :
        outline[i].page # outline[j].page /\ outline[i].level # outline[j].level

(***************************************************************************)
(* The batch loop, process_pdfs.  For each file the environment decides    *)
(* whether extract_outline raises, whether writing the result raises (in   *)
(* open, or in json.dump after the file was truncated), and whether the    *)
(* write of the error result in the except block raises.                   *)
(***************************************************************************)
MaxFiles == 2

WriteOutcomes == {"ok", "open_raises", "dump_raises"}

FaultChoices ==
    [extract_raises : BOOLEAN, write : WriteOutcomes, error_write : WriteOutcomes]

\* the output file after open(output_file, 'w') and json.dump(content, f)
WriteFile(before, content, outcome) ==
    CASE outcome = "ok" -> content
      [] outcome = "open_raises" -> before
      [] outcome = "dump_raises" -> "partial"

InitBatch ==
    /\ mode = "batch"
    /\ pc = "start"
    /\ \E n \in 0..MaxFiles :
        /\ faults \in [1..n -> FaultChoices]
        /\ outputs = [f \in 1..n |-> "absent"]
    /\ escaped = FALSE
    /\ idx = 0
    /\ IdleClassifier
    /\ IdleDocument

\* process_pdfs up to the loop: returns at once without PDF files
StartBatch ==
    /\ mode = "batch"
    /\ pc = "start"
    /\ pc' = IF Len(faults) = 0 THEN "done" ELSE "loop"
    /\ UNCHANGED <<mode, text, pattern_type, fmt, level, text_blocks, title, idx, outline,
                   seen_headings, faults, outputs, escaped>>

\* one iteration of the loop: the try block and, when it raises, the except block
ProcessPdf ==
    /\ mode = "batch"
    /\ pc = "loop"
    /\ idx < Len(faults)
    /\ LET f      == idx + 1
           fault  == faults[f]
           \* the try block raises in extract_outline, or in writing the result
           tried  == IF fault.extract_raises THEN outputs[f]
                     ELSE WriteFile(outputs[f], "result", fault.write)
           raised == fault.extract_raises \/ fault.write # "ok"
       IN  IF ~raised
           THEN /\ outputs' = [outputs EXCEPT ![f] = tried]
                /\ idx' = idx + 1
                /\ UNCHANGED <<pc, escaped>>
           ELSE \* the except block writes the error result, unprotected
                /\ outputs' = [outputs EXCEPT ![f] = WriteFile(tried, "sentinel",
                                                                  fault.error_write)]
                /\ IF fault.error_write = "ok"
                   THEN idx' = idx + 1 /\ UNCHANGED <<pc, escaped>>
                   ELSE escaped' = TRUE /\ pc' = "raised" /\ UNCHANGED idx
    /\ UNCHANGED <<mode, text, pattern_type, fmt, level, text_blocks, title, outline,
                   seen_headings, faults>>

\* the loop ends and process_pdfs returns
FinishBatch ==
    /\ mode = "batch"
    /\ pc = "loop"
    /\ idx = Len(faults)
    /\ pc' = "done"
    /\ UNCHANGED <<mode, text, pattern_type, fmt, level, text_blocks, title, idx, outline,
                   seen_headings, faults, outputs, escaped>>

NextBatch == StartBatch \/ ProcessPdf \/ FinishBatch

SpecBatch == InitBatch /\ [][NextBatch]_vars

\* the try block of file f fails
Failed(f) == faults[f].extract_raises \/ faults[f].write # "ok"

\* C7 as stated: whichever per-document steps fail, no failure escapes
\* process_pdfs, the loop reaches every file, and when it ends every failed
\* document has the sentinel result as its output (the others their result).
C7_BatchNeverAborts ==
    mode = "batch" =>
        /\ ~escaped
        /\ pc \in {"start", "loop", "done"}
        /\ pc = "done" =>
            /\ idx = Len(faults)
            /\ \A f \in 1..Len(faults) :
                outputs[f] = (IF Failed(f) THEN "sentinel" ELSE "result")

====
